---- MODULE Spec2Model ----
(***************************************************************************)
(* Strict watchdog device (hw/watchdog/wdt_strict.c): the challenge and    *)
(* response protocol, the feeding window, the deadline timer and the reset *)
(* escalation, as a state machine over the device's fields.                *)
(*                                                                         *)
(* uint64_t values are four 16-bit limbs, least significant first, and     *)
(* uint32_t values are two: the arithmetic below wraps exactly as the C    *)
(* arithmetic does, and no intermediate value leaves TLC's integer range.  *)
(***************************************************************************)
EXTENDS Integers, Sequences, FiniteSets, TLC

Limb == 2^16
Byte == 2^8

\* ------------------------------------------------------------- uint64_t

\* The uint64_t with value n, for a literal 0 <= n < 2^31.
U64(n) == <<n % Limb, n \div Limb, 0, 0>>

\* a + b in uint64_t arithmetic: the carry out of the top limb is dropped.
U64Add(a, b) ==
    LET s1 == a[1] + b[1]
        s2 == a[2] + b[2] + (s1 \div Limb)
        s3 == a[3] + b[3] + (s2 \div Limb)
        s4 == a[4] + b[4] + (s3 \div Limb)
    IN  <<s1 % Limb, s2 % Limb, s3 % Limb, s4 % Limb>>

\* a < b on uint64_t.
U64Lt(a, b) ==
    \/ a[4] < b[4]
    \/ a[4] = b[4] /\ a[3] < b[3]
    \/ a[4] = b[4] /\ a[3] = b[3] /\ a[2] < b[2]
    \/ a[4] = b[4] /\ a[3] = b[3] /\ a[2] = b[2] /\ a[1] < b[1]

\* a <= b on uint64_t.
U64Le(a, b) == ~U64Lt(b, a)

\* (uint32_t) a: the low 32 bits.
Lo32(a) == <<a[1], a[2]>>

\* A uint32_t widened to uint64_t (the return value of the read callback).
Widen(x) == <<x[1], x[2], 0, 0>>

\* ------------------------------------------------------------- uint32_t

U32 == (0 .. Limb - 1) \X (0 .. Limb - 1)

\* ~x on uint32_t.
U32Not(x) == <<Limb - 1 - x[1], Limb - 1 - x[2]>>

\* The 32-bit product of two 16-bit numbers, as <<low 16 bits, high 16 bits>>.
Mul16(x, y) ==
    LET p0 == (x % Byte) * y
        p1 == (x \div Byte) * y
        lo == p0 + (p1 % Byte) * Byte
    IN  <<lo % Limb, ((lo \div Limb) + (p1 \div Byte)) % Limb>>

\* a * b in uint32_t arithmetic (the product modulo 2^32).
U32Mul(a, b) ==
    LET ll == Mul16(a[1], b[1])
        lh == Mul16(a[1], b[2])
        hl == Mul16(a[2], b[1])
    IN  <<ll[1], (ll[2] + lh[1] + hl[1]) % Limb>>

\* x >> 8 on uint32_t.
U32Shr8(x) == <<(x[1] \div Byte) + (x[2] % Byte) * Byte, x[2] \div Byte>>

\* x | 1 on uint32_t.
U32Or1(x) == <<IF x[1] % 2 = 1 THEN x[1] ELSE x[1] + 1, x[2]>>

\* (x >> i) & 1 on uint32_t, 0 <= i < 32.
U32Bit(x, i) == IF i < 16 THEN (x[1] \div 2^i) % 2 ELSE (x[2] \div 2^(i - 16)) % 2

\* x ^ (b << j) on uint32_t, for a bit b and 0 <= j < 32.
U32XorBit(x, b, j) ==
    IF b = 0 THEN x
    ELSE IF j < 16
         THEN <<IF U32Bit(x, j) = 1 THEN x[1] - 2^j ELSE x[1] + 2^j, x[2]>>
         ELSE <<x[1], IF U32Bit(x, j) = 1 THEN x[2] - 2^(j - 16) ELSE x[2] + 2^(j - 16)>>

\* ---------------------------------------------------- challenge transform

\* The loop of integer_power_truncated from bit i down to bit 0. (The test
\* nx \in U32 always holds; it makes TLC compute each iteration's value before
\* it starts the next.)
RECURSIVE PowerLoop(_, _, _, _)
PowerLoop(out, base, power, i) ==
    IF i < 0 THEN out
    ELSE LET sq == U32Mul(out, out)
             nx == IF (power \div 2^i) % 2 = 1 THEN U32Mul(sq, base) ELSE sq
         IN  IF nx \in U32 THEN PowerLoop(nx, base, power, i - 1) ELSE nx

\* Mutant of integer_power_truncated: the loop starts at bit 14.
integer_power_truncated_FifteenBits(base, power) ==
    PowerLoop(<<1, 0>>, base, power, 14)

\* integer_power_truncated(base, power): base^power modulo 2^32 by
\* square-and-multiply over the 16 bits of power.
integer_power_truncated(base, power) == PowerLoop(<<1, 0>>, base, power, 15)

\* The loop of wdt_strict_food_from_recipe from bit i up to bit 31.
RECURSIVE ReverseXorLoop(_, _, _)
ReverseXorLoop(result, recipe, i) ==
    IF i >= 32 THEN result
    ELSE LET nx == U32XorBit(result, U32Bit(recipe, i), 31 - i)
         IN  IF nx \in U32 THEN ReverseXorLoop(nx, recipe, i + 1) ELSE nx

\* wdt_strict_food_from_recipe(recipe).
wdt_strict_food_from_recipe(recipe) ==
    ReverseXorLoop(integer_power_truncated(U32Or1(U32Shr8(recipe)), recipe[1]),
                   recipe, 0)

\* ------------------------------------------------------------ registers

WDT_STRICT_REG_GREET        == 0
WDT_STRICT_REG_FEED         == 4
WDT_STRICT_REG_DEADLINE     == 8
WDT_STRICT_REG_EARLY_OFFSET == 12

\* NANOSECONDS_PER_SECOND, the default of period-ns and early-feed-ns.
NANOSECONDS_PER_SECOND == U64(1000000000)

\* ------------------------------------------------------------ bounds

\* Virtual time runs from 0 to MaxTime nanoseconds in the small configurations.
MaxTime == 6

\* The times of the concrete scenario: Greet at 200 ms, Feed 1 ns later, the
\* deadlines at 1 s, 2 s and 3 s, and the late Greet at 2.1 s.
ScenarioTimes ==
    {U64(200000000), U64(200000001), NANOSECONDS_PER_SECOND, U64(2000000000),
     U64(2100000000), U64Add(U64(2000000000), NANOSECONDS_PER_SECOND)}

\* The exponents 0 .. MaxPower are all tried.
MaxPower == 12

\* The low halves (the exponent) and the high halves of the inputs that
\* wdt_strict_food_from_recipe is tried on, on its own.
LowHalves == (0 .. MaxPower) \cup {255, 256, 257, 4095, 32768, 65535}
HighHalves == {0, 1, 2, 255, 256, 32768, 43690, 65535}
TransformInputs == {<<lo, hi>> : lo \in LowHalves, hi \in HighHalves}

\* The instants of the small configurations.
SmallTimes == {U64(n) : n \in 0 .. MaxTime}

\* 2^32 as a uint64_t: the first time whose (uint32_t) cast differs from it.
TwoTo32 == <<0, 0, 1, 0>>

\* The instants of the configurations realized after 2^32 ns (about 4.3 s) of
\* virtual time.
HighTimes == {U64Add(TwoTo32, U64(n)) : n \in 0 .. MaxTime}

\* wdt_strict_food_from_recipe tabulated, so that TLC computes it once for
\* each argument the runs pass it: the seeds ~(uint32_t)now, the recipes made
\* from them, and 0 (what a refused Greet returns).
FoodTable ==
    LET seeds   == {U32Not(Lo32(t)) :
                        t \in SmallTimes \cup HighTimes \cup ScenarioTimes}
        recipes == {wdt_strict_food_from_recipe(r) : r \in seeds}
    IN  [r \in seeds \cup recipes \cup {<<0, 0>>} |->
            wdt_strict_food_from_recipe(r)]

\* wdt_strict_food_from_recipe(recipe), looked up where it is tabulated.
Food(recipe) ==
    IF recipe \in DOMAIN FoodTable THEN FoodTable[recipe]
    ELSE wdt_strict_food_from_recipe(recipe)

\* ------------------------------------------------------------ state

VARIABLES
    now,          \* qemu_clock_get_ns(QEMU_CLOCK_VIRTUAL), a uint64_t
    wdt_strict,   \* the fields of WatchdogStrictState, with the state of its timer
    aborted,      \* an assert() has failed: the process is gone
    now_at_init,  \* the virtual time at which the device was realized
    caretaker,    \* the guest software: the food it computed from the value it
                  \* read last from GREET
    last,         \* the callback (read, write, timer) that has just run: its
                  \* inputs and effects; idle once virtual time has moved on
    round,        \* a summary of the most recent callback
    stage,        \* progress through the concrete scenario of the specification
    probe         \* wdt_strict_food_from_recipe on its own: an input, and the
                  \* result once the function has been applied to it

vars == <<now, wdt_strict, aborted, now_at_init, caretaker, last, round, stage,
          probe>>

\* No input is being tried.
NoProbe == [input |-> <<0, 0>>, done |-> FALSE, result |-> <<0, 0>>]

\* One run of a callback: the device state s it works on, the number of
\* watchdog_perform_action() calls and of "secondary error" log lines so far,
\* whether an assertion failed, and the value returned; time is the latest
\* reading of qemu_clock_get_ns(QEMU_CLOCK_VIRTUAL) made in the run and clock
\* the readings that the calls still to come will get, in order.
Exec(s) == [s |-> s, actions |-> 0, secondary_errors |-> 0, aborted |-> FALSE,
            ret |-> <<0, 0>>, time |-> U64(0), clock |-> <<>>]

\* A run that starts at virtual time t, with the later readings clock.
ExecAt(s, t, clock) == [Exec(s) EXCEPT !.time = t, !.clock = clock]

\* Every function of the device reads the clock for itself (uint64_t now =
\* qemu_clock_get_ns(...) at its head): a function run as f(x, t) has read t,
\* and calls g as g(Tick(x), Clock(x)), g reading the clock next.
Clock(x) == Head(x.clock)
Tick(x) == [x EXCEPT !.time = Head(x.clock), !.clock = Tail(x.clock)]

\* A failed assert(): abort(), and nothing after it runs.
AssertFailed(x) == [x EXCEPT !.aborted = TRUE]

\* timer_mod(wdt_strict->timer, expire_time): the one timer is (re)armed.
timer_mod(x, expire_time) ==
    [x EXCEPT !.s.timer_armed = TRUE, !.s.timer_expire_time = expire_time]

\* watchdog_perform_action(): the reset action, opaque to the device.
watchdog_perform_action(x) == [x EXCEPT !.actions = @ + 1]

\* ------------------------------------------------------------ the device

\* Mutant of FedTooEarly: the window opens one instant late (<= for <).
FedTooEarly_Inclusive(s, t) ==
    U64Le(U64Add(t, s.early_feed_limit_ns), s.next_expiration_time)

\* now + early_feed_limit_ns < next_expiration_time, in uint64_t arithmetic.
FedTooEarly(s, t) ==
    U64Lt(U64Add(t, s.early_feed_limit_ns), s.next_expiration_time)

\* Mutant of wdt_strict_timer_expired: the deadline advances by two periods.
wdt_strict_timer_expired_TwoPeriods(x, t) ==
    IF ~U64Le(x.s.next_expiration_time, t) THEN AssertFailed(x)
    ELSE LET x1 == [x EXCEPT !.s.next_expiration_time =
                                  U64Add(U64Add(@, x.s.feeding_period_ns),
                                         x.s.feeding_period_ns)]
         IN  IF ~U64Lt(t, x1.s.next_expiration_time) THEN AssertFailed(x1)
             ELSE LET x2 == timer_mod(x1, x1.s.next_expiration_time)
                      x3 == [x2 EXCEPT !.s.was_greeted = FALSE]
                  IN  IF ~x3.s.disable_auto THEN watchdog_perform_action(x3)
                      ELSE x3

\* Mutant of wdt_strict_timer_expired: disable_auto is not consulted.
wdt_strict_timer_expired_AlwaysAction(x, t) ==
    IF ~U64Le(x.s.next_expiration_time, t) THEN AssertFailed(x)
    ELSE LET x1 == [x EXCEPT !.s.next_expiration_time =
                                  U64Add(@, x.s.feeding_period_ns)]
         IN  IF ~U64Lt(t, x1.s.next_expiration_time) THEN AssertFailed(x1)
             ELSE watchdog_perform_action(
                      [timer_mod(x1, x1.s.next_expiration_time)
                           EXCEPT !.s.was_greeted = FALSE])

\* Mutant of wdt_strict_timer_expired: the timer is not armed again.
wdt_strict_timer_expired_OneShot(x, t) ==
    IF ~U64Le(x.s.next_expiration_time, t) THEN AssertFailed(x)
    ELSE LET x1 == [x EXCEPT !.s.next_expiration_time =
                                  U64Add(@, x.s.feeding_period_ns)]
         IN  IF ~U64Lt(t, x1.s.next_expiration_time) THEN AssertFailed(x1)
             ELSE LET x3 == [x1 EXCEPT !.s.was_greeted = FALSE]
                  IN  IF ~x3.s.disable_auto THEN watchdog_perform_action(x3)
                      ELSE x3

\* Mutant of wdt_strict_timer_expired: a pending challenge survives the expiry.
wdt_strict_timer_expired_KeepsGreeted(x, t) ==
    IF ~U64Le(x.s.next_expiration_time, t) THEN AssertFailed(x)
    ELSE LET x1 == [x EXCEPT !.s.next_expiration_time =
                                  U64Add(@, x.s.feeding_period_ns)]
         IN  IF ~U64Lt(t, x1.s.next_expiration_time) THEN AssertFailed(x1)
             ELSE LET x2 == timer_mod(x1, x1.s.next_expiration_time)
                  IN  IF ~x2.s.disable_auto THEN watchdog_perform_action(x2)
                      ELSE x2

\* Mutant of wdt_strict_timer_expired: the new deadline is not asserted to lie
\* in the future.
wdt_strict_timer_expired_NoFutureAssert(x, t) ==
    IF ~U64Le(x.s.next_expiration_time, t) THEN AssertFailed(x)
    ELSE LET x1 == [x EXCEPT !.s.next_expiration_time =
                                  U64Add(@, x.s.feeding_period_ns)]
             x2 == timer_mod(x1, x1.s.next_expiration_time)
             x3 == [x2 EXCEPT !.s.was_greeted = FALSE]
         IN  IF ~x3.s.disable_auto THEN watchdog_perform_action(x3) ELSE x3

\* wdt_strict_timer_expired; t is its reading of the clock (line 70).
wdt_strict_timer_expired(x, t) ==
    IF ~U64Le(x.s.next_expiration_time, t) THEN AssertFailed(x)
    ELSE LET x1 == [x EXCEPT !.s.next_expiration_time =
                                  U64Add(@, x.s.feeding_period_ns)]
         IN  IF ~U64Lt(t, x1.s.next_expiration_time) THEN AssertFailed(x1)
             ELSE LET x2 == timer_mod(x1, x1.s.next_expiration_time)
                      x3 == [x2 EXCEPT !.s.was_greeted = FALSE]
                  IN  IF ~x3.s.disable_auto THEN watchdog_perform_action(x3)
                      ELSE x3

\* Mutant of wdt_strict_defer_next_reset: the deadline restarts at now + period.
wdt_strict_defer_next_reset_FromNow(x, t) ==
    IF ~U64Le(t, x.s.next_expiration_time) THEN AssertFailed(x)
    ELSE LET x1 == [x EXCEPT !.s.next_expiration_time =
                                  U64Add(t, x.s.feeding_period_ns)]
         IN  timer_mod(x1, x1.s.next_expiration_time)

\* Mutant of wdt_strict_defer_next_reset: the timer is not re-armed.
wdt_strict_defer_next_reset_NoTimerMod(x, t) ==
    IF ~U64Le(t, x.s.next_expiration_time) THEN AssertFailed(x)
    ELSE IF U64Le(x.s.next_expiration_time, U64Add(t, x.s.feeding_period_ns))
         THEN [x EXCEPT !.s.next_expiration_time =
                            U64Add(@, x.s.feeding_period_ns)]
         ELSE x

\* Mutant of wdt_strict_defer_next_reset: the deadline is deferred however far
\* out it is.
wdt_strict_defer_next_reset_Always(x, t) ==
    IF ~U64Le(t, x.s.next_expiration_time) THEN AssertFailed(x)
    ELSE LET x1 == [x EXCEPT !.s.next_expiration_time =
                                  U64Add(@, x.s.feeding_period_ns)]
         IN  timer_mod(x1, x1.s.next_expiration_time)

\* Mutant of wdt_strict_defer_next_reset: a deadline exactly one period away
\* is not deferred (< for <=).
wdt_strict_defer_next_reset_Strict(x, t) ==
    IF ~U64Le(t, x.s.next_expiration_time) THEN AssertFailed(x)
    ELSE IF U64Lt(x.s.next_expiration_time, U64Add(t, x.s.feeding_period_ns))
         THEN LET x1 == [x EXCEPT !.s.next_expiration_time =
                                       U64Add(@, x.s.feeding_period_ns)]
              IN  timer_mod(x1, x1.s.next_expiration_time)
         ELSE x

\* Mutant of wdt_strict_defer_next_reset: a deadline up to two periods away is
\* still deferred.
wdt_strict_defer_next_reset_TwoAhead(x, t) ==
    IF ~U64Le(t, x.s.next_expiration_time) THEN AssertFailed(x)
    ELSE IF U64Le(x.s.next_expiration_time,
                  U64Add(U64Add(t, x.s.feeding_period_ns),
                         x.s.feeding_period_ns))
         THEN LET x1 == [x EXCEPT !.s.next_expiration_time =
                                       U64Add(@, x.s.feeding_period_ns)]
              IN  timer_mod(x1, x1.s.next_expiration_time)
         ELSE x

\* wdt_strict_defer_next_reset; t is its reading of the clock (line 87).
wdt_strict_defer_next_reset(x, t) ==
    IF ~U64Le(t, x.s.next_expiration_time) THEN AssertFailed(x)
    ELSE IF U64Le(x.s.next_expiration_time, U64Add(t, x.s.feeding_period_ns))
         THEN LET x1 == [x EXCEPT !.s.next_expiration_time =
                                       U64Add(@, x.s.feeding_period_ns)]
              IN  timer_mod(x1, x1.s.next_expiration_time)
         ELSE x

\* Mutant of wdt_strict_immediate_reset: the reset is gated by disable_auto,
\* as the timer's is.
wdt_strict_immediate_reset_Gated(x, t) ==
    LET x1 == wdt_strict_defer_next_reset(
                  Tick([x EXCEPT !.secondary_errors = @ + 1]), Clock(x))
        x2 == [x1 EXCEPT !.s.was_greeted = FALSE]
    IN  IF x1.aborted THEN x1
        ELSE IF ~x2.s.disable_auto THEN watchdog_perform_action(x2) ELSE x2

\* Mutant of wdt_strict_immediate_reset: the deadline is not deferred.
wdt_strict_immediate_reset_NoDefer(x, t) ==
    watchdog_perform_action(
        [x EXCEPT !.secondary_errors = @ + 1, !.s.was_greeted = FALSE])

\* wdt_strict_immediate_reset; t is its reading of the clock (line 97), which
\* goes to the log line only.
wdt_strict_immediate_reset(x, t) ==
    LET x1 == wdt_strict_defer_next_reset(
                  Tick([x EXCEPT !.secondary_errors = @ + 1]), Clock(x))
    IN  IF x1.aborted THEN x1
        ELSE watchdog_perform_action([x1 EXCEPT !.s.was_greeted = FALSE])

\* Mutant of wdt_strict_greet: a second Greet replaces the pending challenge.
wdt_strict_greet_Regreet(x, t) ==
    IF ~U64Le(t, x.s.next_expiration_time) THEN AssertFailed(x)
    ELSE IF FedTooEarly(x.s, t)
         THEN [wdt_strict_immediate_reset(Tick(x), Clock(x)) EXCEPT !.ret = <<0, 0>>]
         ELSE LET recipe == Food(U32Not(Lo32(t)))
              IN  [x EXCEPT !.s.was_greeted = TRUE,
                            !.s.next_food_expected = Food(recipe),
                            !.ret = recipe]

\* Mutant of wdt_strict_greet: the recipe is made from the deadline, not from
\* the time of the Greet.
wdt_strict_greet_SeedFromDeadline(x, t) ==
    IF ~U64Le(t, x.s.next_expiration_time) THEN AssertFailed(x)
    ELSE IF FedTooEarly(x.s, t) \/ x.s.was_greeted
         THEN [wdt_strict_immediate_reset(Tick(x), Clock(x)) EXCEPT !.ret = <<0, 0>>]
         ELSE LET recipe == Food(U32Not(Lo32(x.s.next_expiration_time)))
              IN  [x EXCEPT !.s.was_greeted = TRUE,
                            !.s.next_food_expected = Food(recipe),
                            !.ret = recipe]

\* wdt_strict_greet; t is its reading of the clock (line 134).
wdt_strict_greet(x, t) ==
    IF ~U64Le(t, x.s.next_expiration_time) THEN AssertFailed(x)
    ELSE IF FedTooEarly(x.s, t) \/ x.s.was_greeted
         THEN [wdt_strict_immediate_reset(Tick(x), Clock(x)) EXCEPT !.ret = <<0, 0>>]
         ELSE LET recipe == Food(U32Not(Lo32(t)))
              IN  [x EXCEPT !.s.was_greeted = TRUE,
                            !.s.next_food_expected = Food(recipe),
                            !.ret = recipe]

\* Mutant of wdt_strict_feed: an accepted Feed leaves was_greeted set.
wdt_strict_feed_StaysGreeted(x, t, value) ==
    IF ~U64Le(t, x.s.next_expiration_time) THEN AssertFailed(x)
    ELSE IF \/ FedTooEarly(x.s, t)
            \/ ~x.s.was_greeted
            \/ value # x.s.next_food_expected
         THEN wdt_strict_immediate_reset(Tick(x), Clock(x))
         ELSE wdt_strict_defer_next_reset(Tick(x), Clock(x))

\* Mutant of wdt_strict_feed: the value fed is not compared.
wdt_strict_feed_AnyValue(x, t, value) ==
    IF ~U64Le(t, x.s.next_expiration_time) THEN AssertFailed(x)
    ELSE IF FedTooEarly(x.s, t) \/ ~x.s.was_greeted
         THEN wdt_strict_immediate_reset(Tick(x), Clock(x))
         ELSE LET x1 == wdt_strict_defer_next_reset(Tick(x), Clock(x))
              IN  IF x1.aborted THEN x1
                  ELSE [x1 EXCEPT !.s.was_greeted = FALSE]

\* Mutant of wdt_strict_feed: the food is accepted without a pending Greet.
wdt_strict_feed_NoGreetNeeded(x, t, value) ==
    IF ~U64Le(t, x.s.next_expiration_time) THEN AssertFailed(x)
    ELSE IF FedTooEarly(x.s, t) \/ value # x.s.next_food_expected
         THEN wdt_strict_immediate_reset(Tick(x), Clock(x))
         ELSE LET x1 == wdt_strict_defer_next_reset(Tick(x), Clock(x))
              IN  IF x1.aborted THEN x1
                  ELSE [x1 EXCEPT !.s.was_greeted = FALSE]

\* wdt_strict_feed with the uint32_t value; t is its reading of the clock
\* (line 161). Line 174 runs only when the assertion of line 88 held.
wdt_strict_feed(x, t, value) ==
    IF ~U64Le(t, x.s.next_expiration_time) THEN AssertFailed(x)
    ELSE IF \/ FedTooEarly(x.s, t)
            \/ ~x.s.was_greeted
            \/ value # x.s.next_food_expected
         THEN wdt_strict_immediate_reset(Tick(x), Clock(x))
         ELSE LET x1 == wdt_strict_defer_next_reset(Tick(x), Clock(x))
              IN  IF x1.aborted THEN x1
                  ELSE [x1 EXCEPT !.s.was_greeted = FALSE]

\* Mutant of wdt_strict_read: DEADLINE is refused on reads as it is on writes.
wdt_strict_read_DeadlineRefused(x, t, addr, size) ==
    IF size # 4 THEN AssertFailed(x)
    ELSE CASE addr = WDT_STRICT_REG_GREET -> wdt_strict_greet(x, t)
           [] addr \in {WDT_STRICT_REG_FEED, WDT_STRICT_REG_DEADLINE} ->
                  [wdt_strict_immediate_reset(x, t) EXCEPT !.ret = <<0, 0>>]
           [] addr = WDT_STRICT_REG_EARLY_OFFSET ->
                  [x EXCEPT !.ret = Lo32(x.s.early_feed_limit_ns)]
           [] OTHER -> AssertFailed(x)

\* wdt_strict_read(opaque, addr, size); it reads no clock, t is the first
\* reading made by the function it calls.
wdt_strict_read(x, t, addr, size) ==
    IF size # 4 THEN AssertFailed(x)
    ELSE CASE addr = WDT_STRICT_REG_GREET -> wdt_strict_greet(x, t)
           [] addr = WDT_STRICT_REG_FEED ->
                  [wdt_strict_immediate_reset(x, t) EXCEPT !.ret = <<0, 0>>]
           [] addr = WDT_STRICT_REG_DEADLINE ->
                  [x EXCEPT !.ret = Lo32(x.s.next_expiration_time)]
           [] addr = WDT_STRICT_REG_EARLY_OFFSET ->
                  [x EXCEPT !.ret = Lo32(x.s.early_feed_limit_ns)]
           [] OTHER -> AssertFailed(x)

\* wdt_strict_write(opaque, addr, value, size); it reads no clock, t is the
\* first reading made by the function it calls; value is the callback's
\* uint64_t, cut to uint32_t at the call of wdt_strict_feed.
wdt_strict_write(x, t, addr, value, size) ==
    IF size # 4 THEN AssertFailed(x)
    ELSE CASE addr \in {WDT_STRICT_REG_GREET, WDT_STRICT_REG_DEADLINE,
                        WDT_STRICT_REG_EARLY_OFFSET} ->
                  wdt_strict_immediate_reset(x, t)
           [] addr = WDT_STRICT_REG_FEED -> wdt_strict_feed(x, t, Lo32(value))
           [] OTHER -> AssertFailed(x)

\* wdt_strict_realize at virtual time t, on the zero-filled object with the
\* three properties set.
wdt_strict_realize(disable_auto, period_ns, early_feed_ns, t) ==
    LET s0 == [disable_auto         |-> disable_auto,
               feeding_period_ns    |-> period_ns,
               early_feed_limit_ns  |-> early_feed_ns,
               was_greeted          |-> FALSE,
               next_food_expected   |-> <<0, 0>>,
               next_expiration_time |-> U64Add(t, period_ns),
               timer_armed          |-> FALSE,
               timer_expire_time    |-> U64(0),
               realized             |-> TRUE]
    IN  timer_mod(Exec(s0), s0.next_expiration_time).s

\* wdt_strict_unrealize: timer_del and timer_free; the device is gone, its
\* other fields as they were.
wdt_strict_unrealize(x) ==
    [x EXCEPT !.s.timer_armed = FALSE, !.s.realized = FALSE]

\* ------------------------------------------------------------ the guest

\* x + 1 on uint32_t.
U32Inc(x) == Lo32(U64Add(Widen(x), U64(1)))

\* wdt_strict_ops.impl: the callbacks are run with a size from
\* min_access_size to max_access_size, whatever the width of the guest's
\* access.
min_access_size == 4
max_access_size == 4
access_size(width) ==
    IF width < min_access_size THEN min_access_size
    ELSE IF width > max_access_size THEN max_access_size
    ELSE width

\* The widths of the guest's accesses that are tried: each gives one run of
\* the callback.
Widths == {1, 2, 4}

\* The low width bytes of the uint64_t value: what an access of that width
\* carries.
Carried(value, width) ==
    IF width = 1 THEN <<value[1] % Byte, 0, 0, 0>>
    ELSE IF width = 2 THEN <<value[1], 0, 0, 0>>
    ELSE <<value[1], value[2], 0, 0>>

\* The register offsets of the 0x10-byte region.
Addrs == {WDT_STRICT_REG_GREET, WDT_STRICT_REG_FEED, WDT_STRICT_REG_DEADLINE,
          WDT_STRICT_REG_EARLY_OFFSET}

\* The values the guest writes: the food computed from the value it read last
\* from GREET, that food plus one, and the food of the last challenge the
\* device issued (the guest's answer to an earlier Greet).
WriteValues ==
    {Widen(caretaker), Widen(U32Inc(caretaker)),
     Widen(wdt_strict.next_food_expected)}

\* The values written to addr: only FEED looks at the value written.
WriteValuesAt(addr) ==
    IF addr = WDT_STRICT_REG_FEED THEN WriteValues ELSE {Widen(caretaker)}

\* ------------------------------------------------------------ the records

\* What a callback did: its inputs, the state it found and its effects.
Log(op, addr, width, value, t, s, before, x) ==
    [op |-> op, addr |-> addr, width |-> width,
     size |-> IF width = 0 THEN 0 ELSE access_size(width),
     value |-> value, at |-> t,
     done_at |-> x.time, before |-> before,
     pre_greeted  |-> s.was_greeted,
     pre_food     |-> s.next_food_expected,
     pre_deadline |-> s.next_expiration_time,
     ret |-> x.ret, actions |-> x.actions,
     secondary_errors |-> x.secondary_errors, aborted |-> x.aborted]

\* The callback ran to its end and took no violation path.
Accepted(l) == ~l.aborted /\ l.secondary_errors = 0

IsRead(l, addr)  == l.op = "read" /\ l.addr = addr /\ l.size = 4
IsWrite(l, addr) == l.op = "write" /\ l.addr = addr /\ l.size = 4

\* What is kept of the callbacks so far, for the next one. kind and v are
\* about the most recent callback among accepted Greet, accepted Feed,
\* violation and timer expiry (a read of DEADLINE or EARLY_OFFSET keeps
\* them): "greet" with the recipe returned, "feed" with the value fed,
\* "expired" for a timer expiry and "doubled" for a second Greet that came
\* right after an accepted Greet (both with that Greet's recipe), "other" for
\* the rest. fed: a Feed has been accepted since next_expiration_time took the
\* value it has after the callback.
Summary(l, before, deadline) ==
    LET fed == IF deadline # l.pre_deadline THEN FALSE
               ELSE before.fed \/ (IsWrite(l, WDT_STRICT_REG_FEED) /\ Accepted(l))
    IN  CASE IsRead(l, WDT_STRICT_REG_GREET) /\ Accepted(l) ->
                 [kind |-> "greet", v |-> l.ret, fed |-> fed]
          [] IsWrite(l, WDT_STRICT_REG_FEED) /\ Accepted(l) ->
                 [kind |-> "feed", v |-> Lo32(l.value), fed |-> fed]
          [] l.op = "timer" /\ ~l.aborted /\ before.kind = "greet" ->
                 [kind |-> "expired", v |-> before.v, fed |-> fed]
          [] IsRead(l, WDT_STRICT_REG_GREET) /\ ~l.aborted
                 /\ l.pre_greeted /\ before.kind = "greet" ->
                 [kind |-> "doubled", v |-> before.v, fed |-> fed]
          [] (IsRead(l, WDT_STRICT_REG_DEADLINE)
                  \/ IsRead(l, WDT_STRICT_REG_EARLY_OFFSET)) /\ ~l.aborted ->
                 [before EXCEPT !.fed = fed]
          [] l.op = "unrealize" -> before
          [] OTHER -> [kind |-> "other", v |-> <<0, 0>>, fed |-> fed]

\* No callback has run since virtual time last advanced.
Idle == [op |-> "none"]

\* ------------------------------------------------------------ the scenario

\* The scenario's configuration: both properties at one second, realized at 0.
ScenarioConfig(s, t0) ==
    /\ s.feeding_period_ns = NANOSECONDS_PER_SECOND
    /\ s.early_feed_limit_ns = NANOSECONDS_PER_SECOND
    /\ t0 = U64(0)

\* The scenario's steps, followed callback by callback: 0 nothing yet, 1 the
\* Greet at 200 ms was accepted, 2 the matching Feed at 200 ms + 1 ns was
\* accepted, 3 the timer then expired, 4 the Greet at 2.1 s came next, 5 the run
\* is not the scenario.
ScenarioStage(st, l) ==
    CASE st = 0 /\ IsRead(l, WDT_STRICT_REG_GREET) /\ l.at = U64(200000000)
                /\ Accepted(l) -> 1
      [] st = 1 /\ IsWrite(l, WDT_STRICT_REG_FEED) /\ l.at = U64(200000001)
                /\ Accepted(l) -> 2
      [] st = 2 /\ l.op = "timer" -> 3
      [] st \in {2, 3} /\ IsRead(l, WDT_STRICT_REG_GREET)
                /\ l.at = U64(2100000000) -> 4
      [] OTHER -> 5

\* ------------------------------------------------------------ the machine

\* The device properties tried: small periods and windows (in nanoseconds),
\* and the defaults.
Configs ==
    [disable_auto : {FALSE}, period : {U64(2), U64(3)},
     early : {U64(0), U64(1), U64(2), U64(4)}, start : {U64(0), U64(1)}]
    \cup
    [disable_auto : {TRUE}, period : {U64(2)},
     early : {U64(0), U64(1)}, start : {U64(0), U64(1)}]
    \cup
    [disable_auto : BOOLEAN, period : {NANOSECONDS_PER_SECOND},
     early : {NANOSECONDS_PER_SECOND}, start : {U64(0)}]

\* The instants at which something may happen.
TimePoints ==
    IF wdt_strict.feeding_period_ns = NANOSECONDS_PER_SECOND
    THEN ScenarioTimes
    ELSE IF U64Le(TwoTo32, now_at_init) THEN HighTimes ELSE SmallTimes

Init ==
    \E c \in Configs :
        /\ now = c.start
        /\ now_at_init = c.start
        /\ wdt_strict = wdt_strict_realize(c.disable_auto, c.period, c.early, c.start)
        /\ aborted = FALSE
        /\ caretaker = <<0, 0>>
        /\ last = Idle
        /\ round = [kind |-> "other", v |-> <<0, 0>>, fed |-> FALSE]
        /\ stage = IF ScenarioConfig(wdt_strict, c.start) THEN 0 ELSE 5
        /\ probe = NoProbe

\* More device properties, tried with a timer that may be late: a period of
\* 0, and a device realized after 2^32 ns, with a window below and above 2^32.
LateConfigs ==
    Configs
    \cup
    [disable_auto : BOOLEAN, period : {U64(0)},
     early : {U64(0), U64(1)}, start : {U64(0), U64(1)}]
    \cup
    [disable_auto : BOOLEAN, period : {U64(2)},
     early : {U64(1), U64Add(TwoTo32, U64(1))},
     start : {U64Add(TwoTo32, U64(1))}]

InitLate ==
    \E c \in LateConfigs :
        /\ now = c.start
        /\ now_at_init = c.start
        /\ wdt_strict = wdt_strict_realize(c.disable_auto, c.period, c.early, c.start)
        /\ aborted = FALSE
        /\ caretaker = <<0, 0>>
        /\ last = Idle
        /\ round = [kind |-> "other", v |-> <<0, 0>>, fed |-> FALSE]
        /\ stage = IF ScenarioConfig(wdt_strict, c.start) THEN 0 ELSE 5
        /\ probe = NoProbe

\* UINT64_MAX.
U64Max == <<Limb - 1, Limb - 1, Limb - 1, Limb - 1>>

\* Device properties with the widest windows: early-feed-ns at UINT64_MAX and
\* one below.
WideConfigs ==
    [disable_auto : BOOLEAN, period : {U64(2)},
     early : {U64Max, <<Limb - 2, Limb - 1, Limb - 1, Limb - 1>>},
     start : {U64(0), U64(1)}]

InitWide ==
    \E c \in WideConfigs :
        /\ now = c.start
        /\ now_at_init = c.start
        /\ wdt_strict = wdt_strict_realize(c.disable_auto, c.period, c.early, c.start)
        /\ aborted = FALSE
        /\ caretaker = <<0, 0>>
        /\ last = Idle
        /\ round = [kind |-> "other", v |-> <<0, 0>>, fed |-> FALSE]
        /\ stage = 5
        /\ probe = NoProbe

\* The device properties tried with accesses of every width.
WidthConfigs ==
    [disable_auto : {FALSE}, period : {U64(2)},
     early : {U64(1), U64(2)}, start : {U64(3)}]

InitWidth ==
    \E c \in WidthConfigs :
        /\ now = c.start
        /\ now_at_init = c.start
        /\ wdt_strict = wdt_strict_realize(c.disable_auto, c.period, c.early, c.start)
        /\ aborted = FALSE
        /\ caretaker = <<0, 0>>
        /\ last = Idle
        /\ round = [kind |-> "other", v |-> <<0, 0>>, fed |-> FALSE]
        /\ stage = 5
        /\ probe = NoProbe

\* The effects of one callback on the state.
Commit(op, addr, width, value, x) ==
    /\ wdt_strict' = x.s
    /\ aborted' = x.aborted
    /\ last' = Log(op, addr, width, value, now, wdt_strict, round, x)
    /\ round' = Summary(last', round, x.s.next_expiration_time)
    /\ stage' = ScenarioStage(stage, last')
    /\ now' = x.time
    /\ UNCHANGED <<now_at_init, probe>>

\* The guest reads a register: the callback starts at now, and the clock
\* readings made further down the call (at line 97, which only goes to the
\* log, and at line 87) give later. A call that reads the clock no further
\* ends at now. The guest makes its food from a recipe it read whole.
Read(addr, width, later) ==
    /\ ~aborted /\ wdt_strict.realized
    /\ LET x == wdt_strict_read(ExecAt(wdt_strict, now, <<later, later>>),
                                now, addr, access_size(width))
       IN  /\ later # now => x.clock # <<later, later>>
           /\ Commit("read", addr, width, U64(0), x)
           /\ caretaker' =
                  IF addr = WDT_STRICT_REG_GREET /\ width = 4 /\ ~x.aborted
                  THEN Food(x.ret)
                  ELSE caretaker

\* The guest writes a register; now and later as for Read.
Write(addr, value, width, later) ==
    /\ ~aborted /\ wdt_strict.realized
    /\ LET x == wdt_strict_write(ExecAt(wdt_strict, now, <<later, later>>),
                                 now, addr, Carried(value, width),
                                 access_size(width))
       IN  /\ later # now => x.clock # <<later, later>>
           /\ Commit("write", addr, width, Carried(value, width), x)
    /\ UNCHANGED caretaker

\* The timer's deadline is reached: the timer leaves the active list and its
\* callback runs.
TimerExpired ==
    /\ ~aborted /\ wdt_strict.realized
    /\ wdt_strict.timer_armed
    /\ U64Le(wdt_strict.timer_expire_time, now)
    /\ Commit("timer", 0, 0, U64(0),
              wdt_strict_timer_expired(
                  ExecAt([wdt_strict EXCEPT !.timer_armed = FALSE], now, <<>>),
                  now))
    /\ UNCHANGED caretaker

\* The device is removed: dc->unrealize runs, and no callback of the device
\* runs after it.
Unrealize ==
    /\ ~aborted /\ wdt_strict.realized
    /\ Commit("unrealize", 0, 0, U64(0),
              wdt_strict_unrealize(ExecAt(wdt_strict, now, <<>>)))
    /\ UNCHANGED caretaker

\* The clock readings a call that starts now may get further down: any
\* instant from now on. With the timer on time, no callback sees the clock
\* beyond the time the timer is armed for.
Readings == {now} \cup {t \in TimePoints : U64Le(now, t)}
ReadingsOnTime ==
    {t \in Readings :
        wdt_strict.timer_armed => U64Le(t, wdt_strict.timer_expire_time)}

\* Virtual time advances to the next instant, and never past an armed timer:
\* its callback runs at the time it is armed for.
Advance(t) ==
    /\ ~aborted /\ wdt_strict.realized
    /\ U64Lt(now, t)
    /\ \A u \in TimePoints : U64Lt(now, u) => U64Le(t, u)
    /\ wdt_strict.timer_armed => U64Le(t, wdt_strict.timer_expire_time)
    /\ now' = t
    /\ last' = Idle
    /\ UNCHANGED <<wdt_strict, aborted, now_at_init, caretaker, round, stage,
                   probe>>

\* Virtual time advances to the next instant, also past an armed timer: its
\* callback runs late.
AdvanceLate(t) ==
    /\ ~aborted /\ wdt_strict.realized
    /\ U64Lt(now, t)
    /\ \A u \in TimePoints : U64Lt(now, u) => U64Le(t, u)
    /\ now' = t
    /\ last' = Idle
    /\ UNCHANGED <<wdt_strict, aborted, now_at_init, caretaker, round, stage,
                   probe>>

\* The guest accesses the registers four bytes at a time.
Next ==
    \/ \E addr \in Addrs, later \in ReadingsOnTime :
           Read(addr, 4, later)
    \/ \E addr \in Addrs, later \in ReadingsOnTime :
       \E value \in WriteValuesAt(addr) :
           Write(addr, value, 4, later)
    \/ TimerExpired
    \/ Unrealize
    \/ \E t \in TimePoints : Advance(t)

\* The timer's callback runs at the time the timer is armed for.
Spec == Init /\ [][Next]_vars

NextLate ==
    \/ \E addr \in Addrs, later \in Readings :
           Read(addr, 4, later)
    \/ \E addr \in Addrs, later \in Readings :
       \E value \in WriteValuesAt(addr) :
           Write(addr, value, 4, later)
    \/ TimerExpired
    \/ Unrealize
    \/ \E t \in TimePoints : AdvanceLate(t)

\* The timer's callback runs at or after the time the timer is armed for.
SpecLate == InitLate /\ [][NextLate]_vars

\* The guest accesses the registers with any of the widths.
NextWidth ==
    \/ \E addr \in Addrs, width \in Widths, later \in ReadingsOnTime :
           Read(addr, width, later)
    \/ \E addr \in Addrs, width \in Widths, later \in ReadingsOnTime :
       \E value \in WriteValuesAt(addr) :
           Write(addr, value, width, later)
    \/ TimerExpired
    \/ Unrealize
    \/ \E t \in TimePoints : Advance(t)

\* The timer on time, the guest's accesses of any width.
SpecWidth == InitWidth /\ [][NextWidth]_vars

\* The guest never touches a register: only the clock and the timer run.
NextUntouched ==
    \/ TimerExpired
    \/ \E t \in TimePoints : Advance(t)

\* The device left alone. Virtual time keeps advancing and the main loop runs
\* a timer that is due.
SpecUntouched ==
    /\ Init /\ [][NextUntouched]_vars
    /\ WF_vars(TimerExpired)
    /\ WF_vars(\E t \in TimePoints : Advance(t))

\* The timer on time, the window as wide as uint64_t allows.
SpecWide == InitWide /\ [][Next]_vars

\* wdt_strict_food_from_recipe on its own: an input is chosen, and the
\* function is applied to it.
InitTransform ==
    /\ now = U64(0)
    /\ now_at_init = U64(0)
    /\ wdt_strict = wdt_strict_realize(FALSE, NANOSECONDS_PER_SECOND,
                                       NANOSECONDS_PER_SECOND, U64(0))
    /\ aborted = FALSE
    /\ caretaker = <<0, 0>>
    /\ last = Idle
    /\ round = [kind |-> "other", v |-> <<0, 0>>, fed |-> FALSE]
    /\ stage = 5
    /\ \E x \in TransformInputs : probe = [NoProbe EXCEPT !.input = x]

Transform ==
    /\ ~probe.done
    /\ probe' = [probe EXCEPT !.done = TRUE,
                               !.result = wdt_strict_food_from_recipe(probe.input)]
    /\ UNCHANGED <<now, wdt_strict, aborted, now_at_init, caretaker, last,
                   round, stage>>

NextTransform == Transform

SpecTransform == InitTransform /\ [][NextTransform]_vars

\* ------------------------------------------------------------ properties

\* The callback l found the window not yet open: its time plus
\* early_feed_limit_ns was below the deadline it found.
TooEarly(l) ==
    U64Lt(U64Add(l.at, wdt_strict.early_feed_limit_ns), l.pre_deadline)

\* The callback l ran after the deadline it found.
TooLate(l) == U64Lt(l.pre_deadline, l.at)

\* The callback l took the violation path once, invoked the reset action once
\* and ran to its end.
ViolationWithReset(l) ==
    l.secondary_errors = 1 /\ l.actions = 1 /\ ~l.aborted

\* The callback l was Greet, and accepted: it returned the recipe made from
\* its time and left the device greeted, expecting the food of that recipe.
GreetAccepted(l) ==
    /\ Accepted(l) /\ l.actions = 0
    /\ l.ret = wdt_strict_food_from_recipe(U32Not(Lo32(l.at)))
    /\ wdt_strict.was_greeted
    /\ wdt_strict.next_food_expected = wdt_strict_food_from_recipe(l.ret)
    /\ wdt_strict.next_expiration_time = l.pre_deadline

\* The callback l was Feed, and accepted: no reset, the challenge consumed.
FeedAccepted(l) ==
    Accepted(l) /\ l.actions = 0 /\ ~wdt_strict.was_greeted

\* The callback l is one of the violations the protocol names.
ProtocolViolation(l) ==
    \/ IsRead(l, WDT_STRICT_REG_GREET) /\ TooEarly(l)
    \/ IsRead(l, WDT_STRICT_REG_GREET) /\ l.pre_greeted
    \/ IsWrite(l, WDT_STRICT_REG_FEED) /\ TooEarly(l)
    \/ IsWrite(l, WDT_STRICT_REG_FEED) /\ ~l.pre_greeted
    \/ IsWrite(l, WDT_STRICT_REG_FEED) /\ Lo32(l.value) # l.pre_food
    \/ IsRead(l, WDT_STRICT_REG_FEED)
    \/ IsWrite(l, WDT_STRICT_REG_GREET)
    \/ IsWrite(l, WDT_STRICT_REG_DEADLINE)
    \/ IsWrite(l, WDT_STRICT_REG_EARLY_OFFSET)

\* C1: every violation (an early or double Greet; a Feed that is early,
\* un-greeted or carries the wrong value; a read of FEED; a write to GREET,
\* DEADLINE or EARLY_OFFSET) invokes the reset action exactly once during the
\* operation, whatever disable_auto is.
C1_ViolationAlwaysResets ==
    ProtocolViolation(last) =>
        ViolationWithReset(last) /\ ~wdt_strict.was_greeted

\* A wrong-valued Feed after an accepted Greet reset once with disable_auto set.
C1_Witness ==
    /\ wdt_strict.disable_auto
    /\ IsWrite(last, WDT_STRICT_REG_FEED)
    /\ last.pre_greeted /\ ~TooEarly(last)
    /\ Lo32(last.value) # last.pre_food
    /\ last.actions = 1

\* The callback l replaced the deadline it found.
DeadlineGivenUp(l) ==
    l.op # "none" /\ wdt_strict.next_expiration_time # l.pre_deadline

\* The callback l was the timer's, run at the deadline it found: it moved the
\* deadline one period on and invoked the reset action iff disable_auto is
\* false.
ExpiredAtDeadline(l) ==
    /\ l.op = "timer" /\ ~l.aborted
    /\ l.at = l.pre_deadline
    /\ wdt_strict.next_expiration_time =
           U64Add(l.pre_deadline, wdt_strict.feeding_period_ns)
    /\ l.actions = (IF wdt_strict.disable_auto THEN 0 ELSE 1)
    /\ l.secondary_errors = 0

\* No Feed was accepted while the deadline that l found was the deadline.
NoFeedForDeadline(l) ==
    ~l.before.fed /\ ~(IsWrite(l, WDT_STRICT_REG_FEED) /\ Accepted(l))

\* C2 as claimed: a deadline D for which no Feed was accepted is given up only
\* by the timer's callback firing at D (one period on, reset iff disable_auto
\* is false).
C2_Original ==
    DeadlineGivenUp(last) /\ NoFeedForDeadline(last) => ExpiredAtDeadline(last)

\* C2, amended: a deadline D for which no Feed was accepted and which no
\* violation deferred is given up only by the timer's callback firing at D;
\* every run of that callback is at the deadline, moves it exactly one period
\* on and invokes the reset action iff disable_auto is false; and virtual time
\* never passes a deadline.
C2_TimeoutEscalation ==
    /\ DeadlineGivenUp(last) /\ NoFeedForDeadline(last)
           /\ last.secondary_errors = 0 => ExpiredAtDeadline(last)
    /\ last.op = "timer" => ExpiredAtDeadline(last)
    /\ U64Le(now, wdt_strict.next_expiration_time)

\* The timer fired at its deadline and reset, no Feed having been accepted.
C2_Witness ==
    /\ last.op = "timer" /\ NoFeedForDeadline(last)
    /\ ~wdt_strict.disable_auto /\ last.actions = 1

\* The callback l ran inside the window of the deadline it found.
InWindow(l) == ~TooEarly(l) /\ ~TooLate(l)

\* C3 as claimed: in every state, a Greet inside the window succeeds.
C3_Original ==
    IsRead(last, WDT_STRICT_REG_GREET) /\ InWindow(last) => GreetAccepted(last)

\* C3, amended: a Greet inside the window, on a device that is not already
\* greeted, succeeds: it returns the recipe, sets was_greeted and invokes no
\* reset.
C3_GreetInsideWindow ==
    IsRead(last, WDT_STRICT_REG_GREET) /\ InWindow(last) /\ ~last.pre_greeted
        => GreetAccepted(last)

\* A Greet at the very instant the window opens, before the deadline, accepted.
C3_Witness ==
    /\ IsRead(last, WDT_STRICT_REG_GREET) /\ ~last.pre_greeted
    /\ U64Add(last.at, wdt_strict.early_feed_limit_ns) = last.pre_deadline
    /\ last.at # last.pre_deadline
    /\ wdt_strict.was_greeted

\* C4 as claimed: a Greet outside the window, before it opens or after the
\* deadline, is a violation: the reset action is invoked and 0 returned.
C4_Original ==
    IsRead(last, WDT_STRICT_REG_GREET) /\ (TooEarly(last) \/ TooLate(last))
        => ViolationWithReset(last) /\ last.ret = <<0, 0>>

\* C5: the Feed that follows an accepted Greet with the food of the recipe
\* returned is accepted without a reset; the same value fed again, with no
\* Greet in between, is a violation that invokes the reset action.
C5_ChallengeResponse ==
    /\ /\ IsWrite(last, WDT_STRICT_REG_FEED)
       /\ last.before.kind = "greet"
       /\ Lo32(last.value) = wdt_strict_food_from_recipe(last.before.v)
       => FeedAccepted(last)
    /\ /\ IsWrite(last, WDT_STRICT_REG_FEED)
       /\ last.before.kind = "feed"
       /\ Lo32(last.value) = last.before.v
       => ViolationWithReset(last)

\* The accepted food, fed a second time right after, reset the system.
C5_Witness ==
    /\ IsWrite(last, WDT_STRICT_REG_FEED)
    /\ last.before.kind = "feed"
    /\ Lo32(last.value) = last.before.v
    /\ last.actions = 1

\* base + k * period in uint64_t arithmetic.
RECURSIVE PeriodsAfter(_, _, _)
PeriodsAfter(base, period, k) ==
    IF k = 0 THEN base ELSE PeriodsAfter(U64Add(base, period), period, k - 1)

\* The deadline is the initial one plus a whole number of periods.
WholePeriods ==
    \E k \in 0 .. MaxTime + 2 :
        wdt_strict.next_expiration_time =
            PeriodsAfter(U64Add(now_at_init, wdt_strict.feeding_period_ns),
                         wdt_strict.feeding_period_ns, k)

\* C6: next_expiration_time never decreases, and it is always the initial
\* deadline now_at_init + feeding_period_ns plus a whole, non-negative number of
\* periods.
C6_DeadlineMonotone ==
    /\ [][U64Le(wdt_strict.next_expiration_time,
                wdt_strict'.next_expiration_time)]_vars
    /\ []WholePeriods

\* The deadline stands two periods after the initial one, on a device
\* realized at a time other than 0.
C6_Witness ==
    /\ now_at_init # U64(0)
    /\ wdt_strict.next_expiration_time =
           PeriodsAfter(U64Add(now_at_init, wdt_strict.feeding_period_ns),
                        wdt_strict.feeding_period_ns, 2)

\* C7: while the device runs, its timer is armed, and armed for
\* next_expiration_time.
C7_TimerTracksDeadline ==
    ~aborted /\ wdt_strict.realized =>
        /\ wdt_strict.timer_armed
        /\ wdt_strict.timer_expire_time = wdt_strict.next_expiration_time

\* An accepted Feed moved the deadline, and the timer with it.
C7_Witness ==
    /\ IsWrite(last, WDT_STRICT_REG_FEED) /\ Accepted(last)
    /\ DeadlineGivenUp(last)
    /\ wdt_strict.timer_armed
    /\ wdt_strict.timer_expire_time = wdt_strict.next_expiration_time

\* C8 as claimed: in the concrete scenario, the Greet at 2.1 s is a violation
\* and invokes the reset action.
C8_Original ==
    stage = 4 /\ last.op = "read"
        => ViolationWithReset(last) /\ last.ret = <<0, 0>>

\* C8, amended: in the concrete scenario the accepted Feed at 200 ms + 1 ns
\* moves the deadline to 2 s; with no further feeds the timer expires at 2 s,
\* moves the deadline to 3 s and invokes the reset action (iff disable_auto is
\* false); the Greet at 2.1 s is then inside the window and is accepted: no
\* violation, no reset.
C8_Scenario ==
    /\ stage = 2 /\ last.op = "write"
           => wdt_strict.next_expiration_time = U64(2000000000)
    /\ stage = 3 /\ last.op = "timer"
           => /\ ExpiredAtDeadline(last)
              /\ last.at = U64(2000000000)
              /\ wdt_strict.next_expiration_time =
                     U64Add(U64(2000000000), NANOSECONDS_PER_SECOND)
    /\ stage = 4 /\ last.op = "read"
           => /\ GreetAccepted(last)
              /\ last.at = U64(2100000000)
              /\ last.pre_deadline =
                     U64Add(U64(2000000000), NANOSECONDS_PER_SECOND)

\* The scenario was played to its last step, the Greet at 2.1 s.
C8_Witness == stage = 4 /\ last.op = "read" /\ ~wdt_strict.disable_auto

\* C9: a Feed is accepted iff it is not too early, the device is greeted and
\* the value is next_food_expected; any other Feed is a violation that clears
\* was_greeted and invokes the reset action; the caller gets nothing back.
C9_FeedAcceptance ==
    IsWrite(last, WDT_STRICT_REG_FEED) =>
        /\ last.ret = <<0, 0>>
        /\ IF /\ ~TooEarly(last)
              /\ last.pre_greeted
              /\ Lo32(last.value) = last.pre_food
           THEN FeedAccepted(last)
           ELSE ViolationWithReset(last) /\ ~wdt_strict.was_greeted

\* After an accepted Greet, the food of its recipe plus one was fed and refused.
C9_Witness ==
    /\ IsWrite(last, WDT_STRICT_REG_FEED)
    /\ last.before.kind = "greet"
    /\ Lo32(last.value) = U32Inc(wdt_strict_food_from_recipe(last.before.v))
    /\ ViolationWithReset(last)

\* The callback l was run for a register access of a width other than 4
\* bytes.
WrongWidth(l) == l.op \in {"read", "write"} /\ l.width # 4

\* C10 as claimed: a register access of a width other than 4 bytes is a
\* violation (the deadline deferred, was_greeted cleared, the reset action
\* invoked) after which the device keeps operating.
C10_Original ==
    WrongWidth(last) => ViolationWithReset(last) /\ ~aborted

\* now_at_init + k * feeding_period_ns.
ResetTime(k) == PeriodsAfter(now_at_init, wdt_strict.feeding_period_ns, k)

\* C11: the device starts with was_greeted false and the deadline at
\* now_at_init + feeding_period_ns; left alone, its timer's callback runs only
\* at the times now_at_init + k * feeding_period_ns, k >= 1, and with
\* disable_auto false the reset action is invoked once at every such time
\* (every one within the run's horizon).
C11_SelfArming ==
    /\ ~wdt_strict.was_greeted
    /\ wdt_strict.next_expiration_time =
           U64Add(now_at_init, wdt_strict.feeding_period_ns)
    /\ [](last.op = "timer" =>
              /\ \E k \in 1 .. MaxTime : last.at = ResetTime(k)
              /\ last.actions = (IF wdt_strict.disable_auto THEN 0 ELSE 1))
    /\ \A k \in 1 .. MaxTime :
           (/\ ~wdt_strict.disable_auto
            /\ ResetTime(k) \in TimePoints
            /\ U64Lt(now, ResetTime(k)))
               ~> (/\ last.op = "timer" /\ last.at = ResetTime(k)
                   /\ last.actions = 1)

\* The second reset of a device realized at a time other than 0 and never
\* accessed.
C11_Witness ==
    /\ now_at_init # U64(0)
    /\ ~wdt_strict.disable_auto
    /\ last.op = "timer" /\ last.at = ResetTime(2) /\ last.actions = 1
    /\ round.kind = "other" /\ caretaker = <<0, 0>>

\* r is the uint64_t a cut to its low 32 bits: a is r plus a multiple of 2^32.
LowBitsOf(r, a) ==
    r \in U32 /\ a = U64Add(<<r[1], r[2], 0, 0>>, <<0, 0, a[3], a[4]>>)

\* The callback l was a read of DEADLINE or of EARLY_OFFSET.
InfoRead(l) ==
    IsRead(l, WDT_STRICT_REG_DEADLINE) \/ IsRead(l, WDT_STRICT_REG_EARLY_OFFSET)

\* C12: a read of DEADLINE returns the low 32 bits of next_expiration_time and
\* a read of EARLY_OFFSET those of early_feed_limit_ns; either leaves every
\* field of the device and its timer as they were and invokes no reset,
\* whatever the time (also past the deadline) and the protocol state.
C12_InfoReads ==
    /\ [](IsRead(last, WDT_STRICT_REG_DEADLINE)
              => LowBitsOf(last.ret, wdt_strict.next_expiration_time))
    /\ [](IsRead(last, WDT_STRICT_REG_EARLY_OFFSET)
              => LowBitsOf(last.ret, wdt_strict.early_feed_limit_ns))
    /\ [](InfoRead(last) =>
              /\ ~last.aborted /\ ~aborted
              /\ last.actions = 0 /\ last.secondary_errors = 0)
    /\ [][InfoRead(last') => wdt_strict' = wdt_strict]_vars

\* A read of DEADLINE past a deadline above 2^32, on a greeted device.
C12_Witness ==
    /\ IsRead(last, WDT_STRICT_REG_DEADLINE)
    /\ TooLate(last) /\ last.pre_greeted /\ wdt_strict.was_greeted
    /\ U64Le(TwoTo32, wdt_strict.next_expiration_time)
    /\ Widen(last.ret) # wdt_strict.next_expiration_time
    /\ last.actions = 0

\* The callback l ran wdt_strict_defer_next_reset to its end: it was an
\* accepted Feed or a violation.
Deferring(l) ==
    \/ IsWrite(l, WDT_STRICT_REG_FEED) /\ Accepted(l)
    \/ l.op \in {"read", "write"} /\ l.secondary_errors = 1 /\ ~l.aborted

\* C13: an accepted Feed or a violation moves next_expiration_time exactly one
\* feeding_period_ns on and arms the timer for the new value when
\* next_expiration_time <= now + feeding_period_ns, now being the clock as
\* wdt_strict_defer_next_reset reads it, and otherwise leaves
\* next_expiration_time and the timer as they were.
C13_DeferDeadline ==
    [][Deferring(last') =>
          IF U64Le(wdt_strict.next_expiration_time,
                   U64Add(now', wdt_strict.feeding_period_ns))
          THEN /\ wdt_strict'.next_expiration_time =
                      U64Add(wdt_strict.next_expiration_time,
                             wdt_strict.feeding_period_ns)
               /\ wdt_strict'.timer_armed
               /\ wdt_strict'.timer_expire_time =
                      wdt_strict'.next_expiration_time
          ELSE /\ wdt_strict'.next_expiration_time =
                      wdt_strict.next_expiration_time
               /\ wdt_strict'.timer_armed = wdt_strict.timer_armed
               /\ wdt_strict'.timer_expire_time =
                      wdt_strict.timer_expire_time]_vars

\* An accepted Feed found the deadline more than a period away and left it.
C13_Witness ==
    /\ IsWrite(last, WDT_STRICT_REG_FEED) /\ Accepted(last)
    /\ U64Lt(U64Add(last.at, wdt_strict.feeding_period_ns), last.pre_deadline)
    /\ wdt_strict.next_expiration_time = last.pre_deadline
    /\ wdt_strict.timer_expire_time = last.pre_deadline

\* C14: was_greeted is true exactly when the most recent callback among
\* accepted Greet, accepted Feed, violation and timer expiry was an accepted
\* Greet; and after a timer expiry that followed an accepted Greet, a Feed of
\* the food of that Greet's recipe is a violation.
C14_GreetedMeansPending ==
    /\ ~aborted => (wdt_strict.was_greeted <=> round.kind = "greet")
    /\ /\ IsWrite(last, WDT_STRICT_REG_FEED)
       /\ last.before.kind = "expired"
       /\ Lo32(last.value) = wdt_strict_food_from_recipe(last.before.v)
       => ViolationWithReset(last)

\* Greet, expiry, then the right food inside the new window: refused.
C14_Witness ==
    /\ IsWrite(last, WDT_STRICT_REG_FEED)
    /\ last.before.kind = "expired"
    /\ Lo32(last.value) = wdt_strict_food_from_recipe(last.before.v)
    /\ Lo32(last.value) = last.pre_food
    /\ ~TooEarly(last)
    /\ last.actions = 1

\* C15: a Greet on a device that is already greeted is a violation, also
\* inside the window: it returns 0, clears was_greeted and invokes the reset
\* action; a Feed of the food of the first Greet's recipe that follows it is a
\* violation too.
C15_DoubleGreet ==
    /\ IsRead(last, WDT_STRICT_REG_GREET) /\ last.pre_greeted
       => /\ ViolationWithReset(last)
          /\ last.ret = <<0, 0>>
          /\ ~wdt_strict.was_greeted
    /\ /\ IsWrite(last, WDT_STRICT_REG_FEED)
       /\ last.before.kind = "doubled"
       /\ Lo32(last.value) = wdt_strict_food_from_recipe(last.before.v)
       => ViolationWithReset(last)

\* Two Greets inside the window, then the food of the first: refused.
C15_Witness ==
    /\ IsWrite(last, WDT_STRICT_REG_FEED)
    /\ last.before.kind = "doubled"
    /\ Lo32(last.value) = wdt_strict_food_from_recipe(last.before.v)
    /\ Lo32(last.value) = last.pre_food
    /\ ~TooEarly(last)
    /\ last.actions = 1

\* C16: after a violation or an accepted Feed that ends at time now, on a
\* device whose feeding_period_ns is not 0, next_expiration_time is above now,
\* and the timer is not due at now.
C16_DeferredPastNow ==
    Deferring(last) /\ wdt_strict.feeding_period_ns # U64(0) =>
        /\ last.done_at = now
        /\ U64Lt(now, wdt_strict.next_expiration_time)
        /\ ~(wdt_strict.timer_armed /\ U64Le(wdt_strict.timer_expire_time, now))

\* A Feed accepted at the very instant of the deadline.
C16_Witness ==
    /\ IsWrite(last, WDT_STRICT_REG_FEED) /\ Accepted(last)
    /\ last.at = last.pre_deadline
    /\ U64Lt(now, wdt_strict.next_expiration_time)

\* The callback l was the timer's, run a full period or more after the
\* deadline it found.
FullPeriodLate(l) ==
    /\ l.op = "timer"
    /\ U64Le(U64Add(l.pre_deadline, wdt_strict.feeding_period_ns), l.at)

\* C17: the timer's callback run at a time now >= next_expiration_time +
\* feeding_period_ns (a full period late, or feeding_period_ns 0) fails its
\* second assertion: the timer stays unarmed, was_greeted is as it was and no
\* reset is invoked.
C17_LateExpiryAborts ==
    FullPeriodLate(last) =>
        /\ last.aborted /\ aborted
        /\ ~wdt_strict.timer_armed
        /\ wdt_strict.was_greeted = last.pre_greeted
        /\ last.actions = 0 /\ last.secondary_errors = 0

\* The callback of a greeted device ran a full, non-zero period late.
C17_Witness ==
    /\ FullPeriodLate(last) /\ last.aborted
    /\ wdt_strict.feeding_period_ns # U64(0)
    /\ last.pre_greeted /\ wdt_strict.was_greeted

\* The callback l was a Greet, a Feed or a violating register access.
GreetFeedOrViolation(l) ==
    l.op \in {"read", "write"} /\ l.size = 4 /\ ~InfoRead(l)

\* C18 as claimed: with the timer's callback delivered at or after the time it
\* is armed for, every Greet, Feed and violating access is processed at a time
\* now <= next_expiration_time, and no assertion of greet, feed or defer fails
\* (stated here for the devices whose feeding_period_ns is not 0).
C18_Original ==
    GreetFeedOrViolation(last) /\ wdt_strict.feeding_period_ns # U64(0) =>
        U64Le(last.at, last.pre_deadline) /\ ~last.aborted

\* The callback l was an accepted Feed of the food of the recipe that the
\* accepted Greet before it returned.
GreetThenFeed(l) ==
    /\ IsWrite(l, WDT_STRICT_REG_FEED) /\ Accepted(l)
    /\ l.before.kind = "greet"
    /\ Lo32(l.value) = wdt_strict_food_from_recipe(l.before.v)

\* C19: virtual time never passes next_expiration_time; a register access
\* replaces the deadline only by the Feed of an accepted Greet-then-Feed round
\* or with a reset; and with disable_auto false the timer replaces it only
\* with a reset. So when time passes a value D of the deadline, a Feed has
\* been accepted or the reset action invoked since D became the deadline.
C19_CoreGuarantee ==
    /\ U64Le(now, wdt_strict.next_expiration_time)
    /\ DeadlineGivenUp(last) /\ last.op \in {"read", "write"}
           => GreetThenFeed(last) \/ last.actions = 1
    /\ DeadlineGivenUp(last) /\ last.op = "timer" /\ ~wdt_strict.disable_auto
           => last.actions = 1
    /\ last.op \in {"read", "write", "timer"} /\ last.actions = 0
           /\ ~GreetThenFeed(last) /\ ~wdt_strict.disable_auto
           => wdt_strict.next_expiration_time = last.pre_deadline

\* A Greet-then-Feed round pushed the deadline out with no reset, with
\* disable_auto false.
C19_Witness ==
    /\ ~wdt_strict.disable_auto
    /\ GreetThenFeed(last) /\ DeadlineGivenUp(last)
    /\ last.actions = 0

\* C20: with early_feed_limit_ns <= feeding_period_ns every accepted Feed
\* moves next_expiration_time exactly one feeding_period_ns on (from 1 s to
\* 2 s for the Feed at 200 ms + 1 ns of the concrete scenario); an accepted
\* Feed leaves the deadline where it was only with early_feed_limit_ns >
\* feeding_period_ns.
C20_FeedAdvancesOnePeriod ==
    /\ /\ IsWrite(last, WDT_STRICT_REG_FEED) /\ Accepted(last)
       /\ U64Le(wdt_strict.early_feed_limit_ns, wdt_strict.feeding_period_ns)
       => wdt_strict.next_expiration_time =
              U64Add(last.pre_deadline, wdt_strict.feeding_period_ns)
    /\ /\ IsWrite(last, WDT_STRICT_REG_FEED) /\ Accepted(last)
       /\ wdt_strict.next_expiration_time = last.pre_deadline
       => U64Lt(wdt_strict.feeding_period_ns, wdt_strict.early_feed_limit_ns)
    /\ stage = 2 /\ last.op = "write"
       => /\ last.at = U64(200000001)
          /\ last.pre_deadline = NANOSECONDS_PER_SECOND
          /\ wdt_strict.next_expiration_time = U64(2000000000)

\* A Feed accepted at the instant the window opened, the window as wide as
\* the period: the deadline moved one period on.
C20_Witness ==
    /\ IsWrite(last, WDT_STRICT_REG_FEED) /\ Accepted(last)
    /\ wdt_strict.early_feed_limit_ns = wdt_strict.feeding_period_ns
    /\ U64Add(last.at, wdt_strict.early_feed_limit_ns) = last.pre_deadline
    /\ wdt_strict.next_expiration_time =
           U64Add(last.pre_deadline, wdt_strict.feeding_period_ns)

\* now + 2 * feeding_period_ns.
TwoPeriodsAhead ==
    U64Add(U64Add(now, wdt_strict.feeding_period_ns),
           wdt_strict.feeding_period_ns)

\* C21: in every state next_expiration_time <= now + 2 * feeding_period_ns,
\* whatever feeds, violations and expiries (on time or late) came before.
C21_DeadlineWithinTwoPeriods ==
    U64Le(wdt_strict.next_expiration_time, TwoPeriodsAhead)

\* Violations and an accepted Feed later, the deadline stands exactly two
\* periods ahead of the clock.
C21_Witness ==
    /\ IsWrite(last, WDT_STRICT_REG_FEED) /\ Accepted(last)
    /\ DeadlineGivenUp(last)
    /\ now # now_at_init
    /\ wdt_strict.feeding_period_ns # U64(0)
    /\ wdt_strict.next_expiration_time = TwoPeriodsAhead

\* base multiplied n times into acc, modulo 2^32. (The tests \in U32 here and
\* below always hold; they make TLC compute a value before it goes on.)
RECURSIVE RepeatedMulInto(_, _, _)
RepeatedMulInto(acc, base, n) ==
    IF n = 0 THEN acc
    ELSE LET nx == U32Mul(acc, base)
         IN  IF nx \in U32 THEN RepeatedMulInto(nx, base, n - 1) ELSE nx

\* base multiplied n times into 1, modulo 2^32.
RepeatedMul(base, n) == RepeatedMulInto(<<1, 0>>, base, n)

\* base^n modulo 2^32 by repeated multiplication, n < 2^16: the n factors
\* base are taken sixteen at a time (b16 is sixteen of them, b256 sixteen
\* b16, b4096 sixteen b256).
PowerReference(base, n) ==
    LET b16   == RepeatedMul(base, 16)
        b256  == RepeatedMul(b16, 16)
        b4096 == RepeatedMul(b256, 16)
    IN  IF n < 16 \/ b16 \notin U32 \/ b256 \notin U32 \/ b4096 \notin U32
        THEN RepeatedMul(base, n)
        ELSE U32Mul(U32Mul(RepeatedMul(b4096, n \div 4096),
                           RepeatedMul(b256, (n \div 256) % 16)),
                    U32Mul(RepeatedMul(b16, (n \div 16) % 16),
                           RepeatedMul(base, n % 16)))

\* The 16-bit number l with its bits in reverse order, from bit j up.
RECURSIVE Reverse16(_, _)
Reverse16(l, j) ==
    IF j > 15 THEN 0
    ELSE ((l \div 2^(15 - j)) % 2) * 2^j + Reverse16(l, j + 1)

\* bitreverse32(x): bit i of x is bit 31 - i of the result.
BitReverse32(x) == <<Reverse16(x[2], 0), Reverse16(x[1], 0)>>

\* a XOR b on 16-bit numbers, from bit j up.
RECURSIVE Xor16(_, _, _)
Xor16(a, b, j) ==
    IF j > 15 THEN 0
    ELSE (((a \div 2^j) + (b \div 2^j)) % 2) * 2^j + Xor16(a, b, j + 1)

\* a XOR b on uint32_t.
U32Xor(a, b) == <<Xor16(a[1], b[1], 0), Xor16(a[2], b[2], 0)>>

\* (x >> 8) | 1, computed on the number made of bits 8 .. 31 of x.
BaseOf(x) ==
    LET v == x[2] * Byte + (x[1] \div Byte)
        w == IF v % 2 = 1 THEN v ELSE v + 1
    IN  <<w % Limb, w \div Limb>>

\* C22: for every 32-bit x, wdt_strict_food_from_recipe(x) is
\* (((x >> 8) | 1) to the power x & 0xFFFF, modulo 2^32) XOR bitreverse32(x);
\* for x & 0xFFFF = 0 that is 1 XOR bitreverse32(x); and the
\* square-and-multiply loop gives the value of repeated multiplication
\* modulo 2^32.
C22_TransformValue ==
    probe.done =>
        /\ probe.result =
               U32Xor(PowerReference(BaseOf(probe.input), probe.input[1]),
                      BitReverse32(probe.input))
        /\ probe.input[1] = 0 =>
               probe.result = U32Xor(<<1, 0>>, BitReverse32(probe.input))
        /\ integer_power_truncated(BaseOf(probe.input), probe.input[1]) =
               PowerReference(BaseOf(probe.input), probe.input[1])

\* The function applied to an input whose exponent is 0xFFFF.
C22_Witness ==
    /\ probe.done
    /\ probe.input[1] = Limb - 1 /\ probe.input[2] = 43690
    /\ probe.result # U32Xor(<<1, 0>>, BitReverse32(probe.input))

\* The recipe of a Greet accepted at a time whose low 32 bits are low.
ChallengeOf(low) == wdt_strict_food_from_recipe(U32Not(low))

\* C23: the recipe an accepted Greet returns and the next_food_expected it
\* leaves are functions of the low 32 bits of its time alone, the same in
\* every run and round whatever the properties, the deadline and the history:
\* the recipe is transform(~low) and next_food_expected is
\* transform(transform(~low)).
C23_ChallengeFromLowBits ==
    IsRead(last, WDT_STRICT_REG_GREET) /\ Accepted(last) =>
        /\ last.ret = ChallengeOf(<<last.at[1], last.at[2]>>)
        /\ wdt_strict.next_food_expected =
               wdt_strict_food_from_recipe(
                   ChallengeOf(<<last.at[1], last.at[2]>>))

\* A Greet accepted after 2^32 ns, before its deadline and after an earlier
\* round: the recipe is that of the time 2^32 ns before.
C23_Witness ==
    /\ IsRead(last, WDT_STRICT_REG_GREET) /\ Accepted(last)
    /\ last.at[3] = 1
    /\ last.at # last.pre_deadline
    /\ last.pre_food # <<0, 0>>
    /\ last.ret = ChallengeOf(Lo32(U64(last.at[1])))

\* The carry out of a + b on uint64_t: 1 when the sum exceeds 2^64 - 1.
U64Carry(a, b) ==
    LET s1 == a[1] + b[1]
        s2 == a[2] + b[2] + (s1 \div Limb)
        s3 == a[3] + b[3] + (s2 \div Limb)
        s4 == a[4] + b[4] + (s3 \div Limb)
    IN  s4 \div Limb

\* The callback l ran too early by the sum without wraparound: its time plus
\* early_feed_limit_ns, as a number, is below the deadline it found.
TooEarlyUnbounded(l) ==
    /\ U64Carry(l.at, wdt_strict.early_feed_limit_ns) = 0
    /\ U64Lt(U64Add(l.at, wdt_strict.early_feed_limit_ns), l.pre_deadline)

\* C24 as claimed: whatever early_feed_limit_ns is, a Greet (on a device not
\* yet greeted) or a Feed (of the expected food, on a greeted device) is
\* refused as too early exactly when the sum now + early_feed_limit_ns,
\* without wraparound, is below next_expiration_time.
C24_Original ==
    /\ IsRead(last, WDT_STRICT_REG_GREET) /\ ~last.pre_greeted
           /\ ~last.aborted
       => (last.secondary_errors = 1 <=> TooEarlyUnbounded(last))
    /\ IsWrite(last, WDT_STRICT_REG_FEED) /\ last.pre_greeted
           /\ Lo32(last.value) = last.pre_food /\ ~last.aborted
       => (last.secondary_errors = 1 <=> TooEarlyUnbounded(last))

====
